---- MODULE Spec2Model ----
(***************************************************************************)
(* PortableWindowsAgent (src/portable_agent.py): the tool-call loop of     *)
(* send_message, the scanner extract_json_objects it runs on every model   *)
(* response, the tool dispatch and the conversation history.               *)
(*                                                                         *)
(* A text is a sequence of tokens.  Each token stands for a run of         *)
(* characters of the Python string: the one-character tokens "{", "}",     *)
(* "[", "]", ",", ":", the double quote, the whitespace characters " " and *)
(* "\n", the three-backtick fence, and words (runs of characters that hold *)
(* none of the former).  The regular expressions and the brace scan of the *)
(* code only distinguish these, so the token level is exact for them.      *)
(***************************************************************************)
EXTENDS Integers, Sequences, FiniteSets, TLC

QT == "\""
NL == "\n"
SP == " "
\* the markdown fence: three backticks (a TLA+ string cannot hold a backtick)
FENCE == "<fence>"

WS == {SP, NL}

(***************************************************************************)
(* re.sub(r'<fence>json\s*|\s*<fence>', '', text) when jsonTag, and        *)
(* re.sub(r'<fence>\s*|\s*<fence>', '', text) otherwise: leftmost match,   *)
(* first alternative first, \s* greedy.                                    *)
(***************************************************************************)
RECURSIVE SkipWs(_, _)
SkipWs(s, i) ==
    IF i <= Len(s) /\ s[i] \in WS THEN SkipWs(s, i + 1) ELSE i

\* a match of the pattern starts at p: the first alternative, a fence (and its
\* json tag), or the second one, whitespace up to a fence
fence_match(s, p, jsonTag) ==
    \/ /\ s[p] = FENCE
       /\ jsonTag => (p + 1 <= Len(s) /\ s[p + 1] = "json")
    \/ /\ SkipWs(s, p) <= Len(s)
       /\ s[SkipWs(s, p)] = FENCE

\* s from i on with every match taken out: the text up to the leftmost match
\* is kept and the substitution goes on behind the match
RECURSIVE re_sub(_, _, _)
re_sub(s, i, jsonTag) ==
    LET starts == {p \in i..Len(s) : fence_match(s, p, jsonTag)}
    IN  IF starts = {} THEN SubSeq(s, i, Len(s))
        ELSE LET p == CHOOSE q \in starts : \A r \in starts : q <= r
                 alt1 == /\ s[p] = FENCE
                         /\ jsonTag => (p + 1 <= Len(s) /\ s[p + 1] = "json")
                 after == IF alt1 THEN SkipWs(s, IF jsonTag THEN p + 2 ELSE p + 1)
                          ELSE SkipWs(s, p) + 1
             IN  SubSeq(s, i, p - 1) \o re_sub(s, after, jsonTag)

\* strip_fences taking the fenced block away with what it holds
strip_fences_with_content(text) ==
    LET fences == {k \in 1..Len(text) : text[k] = FENCE}
    IN  IF Cardinality(fences) < 2 THEN text
        ELSE LET first == CHOOSE k \in fences : \A m \in fences : k <= m
                 second == CHOOSE k \in fences \ {first} : \A m \in fences \ {first} : k <= m
             IN  SubSeq(text, 1, first - 1) \o SubSeq(text, second + 1, Len(text))

strip_fences(text) == re_sub(re_sub(text, 1, TRUE), 1, FALSE)

(***************************************************************************)
(* json.loads on a token sequence.  A JSON value is a record               *)
(*   [kind, str, sub]:  kind "str" with its characters in str;             *)
(*   kind "obj" with its members [k, v] in sub, in source order;           *)
(*   kind "arr" with its elements in sub; kind "num" / "null" / "bool".    *)
(* A parse result is [ok, val, pos]: pos is the index after the value.     *)
(***************************************************************************)
JNull == [kind |-> "null", str |-> <<>>, sub |-> <<>>]
JStr(chars) == [kind |-> "str", str |-> chars, sub |-> <<>>]
JObj(members) == [kind |-> "obj", str |-> <<>>, sub |-> members]
JArr(elems) == [kind |-> "arr", str |-> <<>>, sub |-> elems]
JNum == [kind |-> "num", str |-> <<"0">>, sub |-> <<>>]

ParseFail == [ok |-> FALSE, val |-> JNull, pos |-> 0]
ParseOk(v, p) == [ok |-> TRUE, val |-> v, pos |-> p]

\* the characters of a string literal up to its closing quote; a raw newline
\* inside a string is a control character, which json rejects
RECURSIVE parse_string_body(_, _, _)
parse_string_body(s, i, acc) ==
    IF i > Len(s) THEN ParseFail
    ELSE IF s[i] = QT THEN ParseOk(JStr(acc), i + 1)
    ELSE IF s[i] = NL THEN ParseFail
    ELSE parse_string_body(s, i + 1, Append(acc, s[i]))

RECURSIVE parse_value(_, _)
RECURSIVE parse_members(_, _, _)
RECURSIVE parse_elements(_, _, _)

\* s[i] is the first token of a member (after "{" or ","): "key" : value
parse_members(s, i, acc) ==
    IF i > Len(s) \/ s[i] # QT THEN ParseFail
    ELSE LET key == parse_string_body(s, i + 1, <<>>)
         IN  IF ~key.ok THEN ParseFail
             ELSE LET c == SkipWs(s, key.pos)
                  IN  IF c > Len(s) \/ s[c] # ":" THEN ParseFail
                      ELSE LET v == parse_value(s, SkipWs(s, c + 1))
                           IN  IF ~v.ok THEN ParseFail
                               ELSE LET e == SkipWs(s, v.pos)
                                        acc2 == Append(acc, [k |-> key.val.str, v |-> v.val])
                                    IN  IF e > Len(s) THEN ParseFail
                                        ELSE IF s[e] = "}" THEN ParseOk(JObj(acc2), e + 1)
                                        ELSE IF s[e] = "," THEN parse_members(s, SkipWs(s, e + 1), acc2)
                                        ELSE ParseFail

\* s[i] is the first token of an element (after "[" or ",")
parse_elements(s, i, acc) ==
    LET v == parse_value(s, i)
    IN  IF ~v.ok THEN ParseFail
        ELSE LET e == SkipWs(s, v.pos)
                 acc2 == Append(acc, v.val)
             IN  IF e > Len(s) THEN ParseFail
                 ELSE IF s[e] = "]" THEN ParseOk(JArr(acc2), e + 1)
                 ELSE IF s[e] = "," THEN parse_elements(s, SkipWs(s, e + 1), acc2)
                 ELSE ParseFail

\* s[i] is the first token of a value (whitespace already skipped)
parse_value(s, i) ==
    IF i > Len(s) THEN ParseFail
    ELSE IF s[i] = QT THEN parse_string_body(s, i + 1, <<>>)
    ELSE IF s[i] = "{" THEN
        LET j == SkipWs(s, i + 1)
        IN  IF j <= Len(s) /\ s[j] = "}" THEN ParseOk(JObj(<<>>), j + 1)
            ELSE parse_members(s, j, <<>>)
    ELSE IF s[i] = "[" THEN
        LET j == SkipWs(s, i + 1)
        IN  IF j <= Len(s) /\ s[j] = "]" THEN ParseOk(JArr(<<>>), j + 1)
            ELSE parse_elements(s, j, <<>>)
    ELSE IF s[i] = "0" THEN ParseOk(JNum, i + 1)
    ELSE IF s[i] = "null" THEN ParseOk(JNull, i + 1)
    ELSE ParseFail

\* json.loads(s): one value, surrounded by optional whitespace, then the end
json_loads(s) ==
    LET v == parse_value(s, SkipWs(s, 1))
    IN  IF v.ok /\ SkipWs(s, v.pos) = Len(s) + 1 THEN v ELSE ParseFail

\* "key in obj" and obj[key] for a parsed dict (a repeated key keeps its last value)
HasKey(obj, key) ==
    obj.kind = "obj" /\ \E n \in 1..Len(obj.sub) : obj.sub[n].k = <<key>>

GetKey(obj, key) ==
    LET n == CHOOSE m \in 1..Len(obj.sub) :
                 /\ obj.sub[m].k = <<key>>
                 /\ \A l \in (m + 1)..Len(obj.sub) : obj.sub[l].k # <<key>>
    IN  obj.sub[n].v

Slice(s, a, b) == [n \in 1..(b - a + 1) |-> s[n + a - 1]]

(***************************************************************************)
(* extract_json_objects: the brace-depth scan of the fence-stripped text.  *)
(* i is the loop index (1-based), start_index = 0 stands for Python's -1.  *)
(***************************************************************************)
\* brace_scan keeping every object that parses, with a "tool" key or not
RECURSIVE brace_scan_keeps_all(_, _, _, _, _)
brace_scan_keeps_all(s, from, brace_count, start_index, json_objects) ==
    LET braces == {k \in from..Len(s) : s[k] \in {"{", "}"}}
    IN  IF braces = {} THEN json_objects
        ELSE LET i == CHOOSE k \in braces : \A m \in braces : k <= m
             IN  IF s[i] = "{" THEN
                     brace_scan_keeps_all(s, i + 1, brace_count + 1,
                                          IF brace_count = 0 THEN i ELSE start_index,
                                          json_objects)
                 ELSE IF brace_count - 1 = 0 /\ start_index # 0
                 THEN LET obj == json_loads(Slice(s, start_index, i))
                      IN  brace_scan_keeps_all(s, i + 1, 0, 0,
                                               IF obj.ok /\ obj.val.kind = "obj"
                                               THEN Append(json_objects, obj.val)
                                               ELSE json_objects)
                 ELSE brace_scan_keeps_all(s, i + 1, brace_count - 1, start_index,
                                           json_objects)

RECURSIVE brace_scan(_, _, _, _, _)
brace_scan(s, from, brace_count, start_index, json_objects) ==
    \* the loop body does nothing on a character that is no brace: go to the
    \* next brace at once
    LET braces == {k \in from..Len(s) : s[k] \in {"{", "}"}}
    IN  IF braces = {} THEN json_objects
        ELSE LET i == CHOOSE k \in braces : \A m \in braces : k <= m
             IN  IF s[i] = "{" THEN
                     brace_scan(s, i + 1, brace_count + 1,
                                IF brace_count = 0 THEN i ELSE start_index, json_objects)
                 ELSE IF brace_count - 1 = 0 /\ start_index # 0
                 THEN LET obj == json_loads(Slice(s, start_index, i))
                      IN  brace_scan(s, i + 1, 0, 0,
                                     IF obj.ok /\ obj.val.kind = "obj" /\ HasKey(obj.val, "tool")
                                     THEN Append(json_objects, obj.val)
                                     ELSE json_objects)
                 ELSE brace_scan(s, i + 1, brace_count - 1, start_index, json_objects)

extract_json_objects(text) == brace_scan(strip_fences(text), 1, 0, 0, <<>>)

\* isinstance(o, dict) and "tool" in o
has_tool(o) == o.kind = "obj" /\ HasKey(o, "tool")

\* lines 736-748: the whole-text parse tried when the brace scan found nothing
fallback_parse(text) ==
    LET objs == json_loads(re_sub(text, 1, TRUE))
    IN  IF ~objs.ok THEN <<>>
        ELSE IF objs.val.kind = "arr" THEN SelectSeq(objs.val.sub, has_tool)
        ELSE IF has_tool(objs.val) THEN <<objs.val>>
        ELSE <<>>

\* lines 733-748: json_objects as it stands when the loop is entered
initial_json_objects(text) ==
    IF extract_json_objects(text) # <<>> THEN extract_json_objects(text)
    ELSE fallback_parse(text)

(***************************************************************************)
(* The tools of the dispatch chain (lines 784-805) with the parameters of  *)
(* their Python signatures: req have no default, opt have one.             *)
(***************************************************************************)
ToolNames ==
    {"read_file", "peek_file", "write_file", "execute_shell", "create_directory",
     "list_directory", "check_file_exists", "manage_todo", "install_package",
     "copy_file", "analyze_image"}

Signature(name) ==
    CASE name = "read_file" -> [req |-> {"file_path"}, opt |-> {}]
      [] name = "peek_file" -> [req |-> {"file_path"}, opt |-> {"num_lines"}]
      [] name = "write_file" -> [req |-> {"file_path", "content"}, opt |-> {}]
      [] name = "execute_shell" -> [req |-> {"command"}, opt |-> {}]
      [] name = "create_directory" -> [req |-> {"dir_path"}, opt |-> {}]
      [] name = "list_directory" -> [req |-> {}, opt |-> {"dir_path"}]
      [] name = "check_file_exists" -> [req |-> {"path"}, opt |-> {}]
      [] name = "manage_todo" -> [req |-> {"action"}, opt |-> {"item", "index"}]
      [] name = "install_package" -> [req |-> {"package_name"}, opt |-> {}]
      [] name = "copy_file" -> [req |-> {"source_path", "dest_path"}, opt |-> {}]
      [] name = "analyze_image" -> [req |-> {"image_path"}, opt |-> {"prompt"}]

\* the parameters of each tool in the order of its def
Params(name) ==
    CASE name = "read_file" -> <<"file_path">>
      [] name = "peek_file" -> <<"file_path", "num_lines">>
      [] name = "write_file" -> <<"file_path", "content">>
      [] name = "execute_shell" -> <<"command">>
      [] name = "create_directory" -> <<"dir_path">>
      [] name = "list_directory" -> <<"dir_path">>
      [] name = "check_file_exists" -> <<"path">>
      [] name = "manage_todo" -> <<"action", "item", "index">>
      [] name = "install_package" -> <<"package_name">>
      [] name = "copy_file" -> <<"source_path", "dest_path">>
      [] name = "analyze_image" -> <<"image_path", "prompt">>

\* the keys of a parsed dict whose keys are single words
KeysOf(obj) == {obj.sub[n].k : n \in 1..Len(obj.sub)}

\* f(**tool_params) binds: tool_params is a mapping, every parameter without a
\* default is given, and no unexpected keyword is given (else TypeError)
binds(name, tool_params) ==
    /\ tool_params.kind = "obj"
    /\ \A k \in KeysOf(tool_params) : \E w \in Signature(name).req \cup Signature(name).opt : k = <<w>>
    /\ \A w \in Signature(name).req : <<w>> \in KeysOf(tool_params)

\* type(value).__name__ of a parsed JSON value
type_name(value) ==
    CASE value.kind = "obj" -> "dict"
      [] value.kind = "arr" -> "list"
      [] value.kind = "str" -> "str"
      [] value.kind = "num" -> "int"
      [] value.kind = "null" -> "NoneType"

\* str(e) of the TypeError that f(**tool_params) raises before the body: a
\* value that is no mapping, else the first keyword f does not take, else the
\* parameters without a default that are not given, in the order of the def
bind_error_text(name, tool_params) ==
    IF tool_params.kind # "obj"
    THEN <<name, "() argument after ** must be a mapping, not ", type_name(tool_params)>>
    ELSE LET takes(mem) ==
                 \E w \in Signature(name).req \cup Signature(name).opt : mem.k = <<w>>
             unexpected == SelectSeq(tool_params.sub, LAMBDA mem : ~takes(mem))
             missing == SelectSeq(Params(name),
                                  LAMBDA w : /\ w \in Signature(name).req
                                             /\ <<w>> \notin KeysOf(tool_params))
         IN  IF unexpected # <<>>
             THEN <<name, "() got an unexpected keyword argument '">>
                      \o unexpected[1].k \o <<"'">>
             ELSE <<name, "() missing required positional arguments: ">> \o missing

\* str(e) of the TypeError that os.path.isabs raises on a value that is no string
body_error_text(name, tool_params) ==
    <<"expected str, bytes or os.PathLike object, not ",
      type_name(GetKey(tool_params, IF name = "list_directory" THEN "dir_path" ELSE "path"))>>

\* the handler bodies keep their work inside try/except and return a string,
\* except os.path.isabs on the path argument of list_directory (lines 892-895)
\* and check_file_exists (lines 924-925), which raises on a non-string
body_raises(name, tool_params) ==
    \/ /\ name = "list_directory"
       /\ HasKey(tool_params, "dir_path")
       /\ GetKey(tool_params, "dir_path").kind \notin {"str", "null"}
    \/ /\ name = "check_file_exists"
       /\ GetKey(tool_params, "path").kind # "str"

\* str(tool_name) inside the f-strings of lines 807 and 811
name_text(tool_name) ==
    IF tool_name.kind = "str" THEN tool_name.str ELSE <<"<", tool_name.kind, ">">>

is_tool(tool_name, w) == tool_name.kind = "str" /\ tool_name.str = <<w>>

\* lines 782-812: what one dispatched call does; outcome is "ran" when a handler
\* body ran to its return, "bind_error" when the call raised before the body,
\* "body_error" when the body raised, "unknown" for the else branch
dispatch(tool_name, tool_params) ==
    IF \E w \in ToolNames : is_tool(tool_name, w)
    THEN LET w == CHOOSE n \in ToolNames : is_tool(tool_name, n)
         IN  IF ~binds(w, tool_params)
             THEN [outcome |-> "bind_error",
                   tool_result |-> <<"Error executing tool '", w, "': ">>
                                       \o bind_error_text(w, tool_params)]
             ELSE IF body_raises(w, tool_params)
             THEN [outcome |-> "body_error",
                   tool_result |-> <<"Error executing tool '", w, "': ">>
                                       \o body_error_text(w, tool_params)]
             ELSE [outcome |-> "ran", tool_result |-> <<"<output of ", w, ">">>]
    ELSE [outcome |-> "unknown",
          tool_result |-> <<"Error: Unknown tool '">> \o name_text(tool_name) \o <<"' requested.">>]

\* line 778: the guard of the dispatch
is_dispatched(tool_call_data) ==
    HasKey(tool_call_data, "tool") /\ HasKey(tool_call_data, "parameters")

(***************************************************************************)
(* The texts the model service answers with, and the user's messages.      *)
(***************************************************************************)
Q(w) == <<QT, w, QT>>

\* {"tool":"<name>"}
ToolObject(name) == <<"{">> \o Q("tool") \o <<":">> \o Q(name) \o <<"}">>

\* {"tool":"<name>","parameters":<params>}
ToolCall(name, params) ==
    <<"{">> \o Q("tool") \o <<":">> \o Q(name) \o <<",">> \o Q("parameters") \o <<":">> \o params \o <<"}">>

EmptyParams == <<"{", "}">>
Prose == <<SP, "then", SP>>

PlainText == <<"All", SP, "done">>
ListCall == ToolCall("list_directory", EmptyParams)
\* the misspelt tool of the spec's example
UnknownCall == ToolCall("write_fil", EmptyParams)
NoParameters == ToolObject("list_directory")
UnknownBare == ToolObject("write_fil")
\* read_file without its file_path raises TypeError; a call without the
\* "parameters" key and a call of list_directory follow it
RaiseBareList ==
    ToolCall("read_file", EmptyParams) \o Prose \o NoParameters \o Prose \o ListCall

\* what the model may answer while the exchange's budget of varied answers lasts
ResponseTexts == {PlainText, ListCall, RaiseBareList, UnknownCall, NoParameters, UnknownBare}
\* what it may answer at any time
TailTexts == {PlainText, ListCall}

UserMessages == {<<"list", SP, "files">>}
\* lines 280-286: the default model and another one of the configuration
default_model == "qwen3-coder:30b"
Models == {default_model, "llama3.2:3b"}
\* requests.RequestException: the service is unreachable, or raise_for_status
TransportErrors == {"ConnectionError", "HTTPError"}

\* the turn cap of the loop
max_turns == 10
\* a new exchange starts only while the history holds at most this many turns
MaxStartLen == 2
\* answers outside TailTexts the model gives in one exchange
MaxVaried == 1

VARIABLES
    conversation_history,   \* self.conversation_history
    current_model,          \* self.current_model
    pc,                     \* "idle", or the place send_message is at
    last_op,                \* the operation called last
    user_message,           \* the argument of send_message
    raw_response,           \* the local raw_response
    json_objects,           \* the local json_objects
    turn,                   \* the local turn
    idx,                    \* the position of the for loop of line 777 in json_objects
    result,                 \* what send_message returned
    returned_at,            \* the line of the return statement it took (0: none yet)
    requests,               \* chat requests it posted
    sent,                   \* the messages of the last chat request it posted
    tool_log,               \* its dispatches, in order
    raised,                 \* the exception its last chat request raised, or "none"
    varied,                 \* answers outside TailTexts given in this exchange
    called_with,            \* the history as send_message found it when called
    todos,                  \* the list stored in todo.json
    todo_call               \* the arguments of the last manage_todo call and its return value

vars == <<conversation_history, current_model, pc, last_op, user_message, raw_response,
          json_objects, turn, idx, result, returned_at, requests, sent, tool_log, raised,
          varied, called_with, todos, todo_call>>

\* an argument that is left out or None is <<>>, one that is given is <<value>>
no_todo_call == [action |-> "", item |-> <<>>, index |-> <<>>, returned |-> <<>>]

Turn(role, content) == [role |-> role, content |-> content]
system_message == Turn("system", <<"system_message">>)

\* no send_message call is running or has just returned
NoCall ==
    /\ user_message = <<>>
    /\ raw_response = <<>>
    /\ json_objects = <<>>
    /\ turn = 0
    /\ idx = 0
    /\ result = <<>>
    /\ returned_at = 0
    /\ requests = 0
    /\ sent = <<>>
    /\ tool_log = <<>>
    /\ raised = "none"
    /\ varied = 0
    /\ called_with = <<>>

\* the same, with a response at hand
NoCallButResponse ==
    /\ user_message = <<>>
    /\ json_objects = <<>>
    /\ turn = 0
    /\ idx = 0
    /\ result = <<>>
    /\ returned_at = 0
    /\ requests = 0
    /\ sent = <<>>
    /\ tool_log = <<>>
    /\ raised = "none"
    /\ varied = 0
    /\ called_with = <<>>

\* an operation other than send_message is called: the locals and the return
\* value of the last send_message are gone
ForgetCall ==
    /\ user_message' = <<>>
    /\ raw_response' = <<>>
    /\ json_objects' = <<>>
    /\ turn' = 0
    /\ idx' = 0
    /\ result' = <<>>
    /\ returned_at' = 0
    /\ requests' = 0
    /\ sent' = <<>>
    /\ tool_log' = <<>>
    /\ raised' = "none"
    /\ varied' = 0
    /\ called_with' = <<>>

\* lines 246-247
Init ==
    /\ conversation_history = <<>>
    /\ current_model = default_model
    /\ pc = "idle"
    /\ last_op = "none"
    /\ NoCall
    /\ todos = <<>>
    /\ todo_call = no_todo_call

\* extract_json_objects and lines 733-748 on each answer, computed once
scanned == [t \in ResponseTexts |-> extract_json_objects(t)]
scanned_initially == [t \in ResponseTexts |-> initial_json_objects(t)]

\* the answers the model service may give now
Answers == IF varied < MaxVaried THEN ResponseTexts ELSE TailTexts
Spend(r) == IF r \in TailTexts THEN varied ELSE varied + 1

\* lines 584-752: the initial request is answered with r
SendMessage(msg, r) ==
    /\ pc = "idle"
    /\ Len(conversation_history) <= MaxStartLen
    /\ last_op' = "send_message"
    /\ user_message' = msg
    /\ sent' = <<system_message>> \o conversation_history \o <<Turn("user", msg)>>
    /\ requests' = 1
    /\ raised' = "none"
    /\ raw_response' = r
    /\ json_objects' = scanned_initially[r]
    /\ turn' = 0
    /\ idx' = 0
    /\ tool_log' = <<>>
    /\ result' = <<>>
    /\ returned_at' = 0
    /\ varied' = IF r \in TailTexts THEN 0 ELSE 1
    /\ called_with' = conversation_history
    /\ pc' = "loop"
    /\ UNCHANGED <<conversation_history, current_model>>
    /\ UNCHANGED <<todos, todo_call>>

\* SendMessageFails with the user turn put into the history before the request
SendMessageFails_records_user(msg, e) ==
    /\ pc = "idle"
    /\ Len(conversation_history) <= MaxStartLen
    /\ last_op' = "send_message"
    /\ user_message' = msg
    /\ sent' = <<system_message>> \o conversation_history \o <<Turn("user", msg)>>
    /\ requests' = 1
    /\ raised' = e
    /\ raw_response' = <<>>
    /\ json_objects' = <<>>
    /\ turn' = 0
    /\ idx' = 0
    /\ tool_log' = <<>>
    /\ varied' = 0
    /\ called_with' = conversation_history
    /\ result' = <<"Error communicating with Ollama: ", e>>
    /\ returned_at' = 849
    /\ pc' = "idle"
    /\ conversation_history' = Append(conversation_history, Turn("user", msg))
    /\ UNCHANGED current_model
    /\ UNCHANGED <<todos, todo_call>>

\* lines 689-696 raise e, line 849 returns
SendMessageFails(msg, e) ==
    /\ pc = "idle"
    /\ Len(conversation_history) <= MaxStartLen
    /\ last_op' = "send_message"
    /\ user_message' = msg
    /\ sent' = <<system_message>> \o conversation_history \o <<Turn("user", msg)>>
    /\ requests' = 1
    /\ raised' = e
    /\ raw_response' = <<>>
    /\ json_objects' = <<>>
    /\ turn' = 0
    /\ idx' = 0
    /\ tool_log' = <<>>
    /\ varied' = 0
    /\ called_with' = conversation_history
    /\ result' = <<"Error communicating with Ollama: ", e>>
    /\ returned_at' = 849
    /\ pc' = "idle"
    /\ UNCHANGED <<conversation_history, current_model>>
    /\ UNCHANGED <<todos, todo_call>>

\* LoopHead without the return of line 763: the request of line 832 follows
LoopHead_falls_through ==
    /\ pc = "loop"
    /\ IF turn < max_turns
       THEN /\ turn' = turn + 1
            /\ json_objects' = extract_json_objects(raw_response)
            /\ IF json_objects' = <<>>
               THEN /\ pc' = "followup"
                    /\ UNCHANGED <<conversation_history, idx, result, returned_at>>
               ELSE /\ conversation_history' =
                          conversation_history \o <<Turn("user", user_message),
                                                    Turn("assistant", raw_response)>>
                    /\ idx' = 1
                    /\ pc' = "tools"
                    /\ UNCHANGED <<result, returned_at>>
       ELSE /\ result' = raw_response
            /\ returned_at' = 846
            /\ pc' = "idle"
            /\ UNCHANGED <<conversation_history, turn, json_objects, idx>>
    /\ UNCHANGED <<current_model, last_op, user_message, raw_response, requests, sent,
                   tool_log, raised, varied, called_with>>
    /\ UNCHANGED <<todos, todo_call>>

\* LoopHead returning an error message when the cap is hit
LoopHead_cap_is_error ==
    /\ pc = "loop"
    /\ IF turn < max_turns
       THEN /\ turn' = turn + 1
            /\ json_objects' = extract_json_objects(raw_response)
            /\ IF json_objects' = <<>>
               THEN /\ result' = raw_response
                    /\ returned_at' = 763
                    /\ pc' = "idle"
                    /\ UNCHANGED <<conversation_history, idx>>
               ELSE /\ conversation_history' =
                          conversation_history \o <<Turn("user", user_message),
                                                    Turn("assistant", raw_response)>>
                    /\ idx' = 1
                    /\ pc' = "tools"
                    /\ UNCHANGED <<result, returned_at>>
       ELSE /\ result' = <<"Error: maximum number of turns reached">>
            /\ returned_at' = 846
            /\ pc' = "idle"
            /\ UNCHANGED <<conversation_history, turn, json_objects, idx>>
    /\ UNCHANGED <<current_model, last_op, user_message, raw_response, requests, sent,
                   tool_log, raised, varied, called_with>>
    /\ UNCHANGED <<todos, todo_call>>

\* LoopHead with "while True": the loop goes on as long as the model asks for tools
LoopHead_while_true ==
    /\ pc = "loop"
    /\ turn' = turn + 1
    /\ json_objects' = extract_json_objects(raw_response)
    /\ IF json_objects' = <<>>
       THEN /\ result' = raw_response
            /\ returned_at' = 763
            /\ pc' = "idle"
            /\ UNCHANGED <<conversation_history, idx>>
       ELSE /\ conversation_history' =
                  conversation_history \o <<Turn("user", user_message),
                                            Turn("assistant", raw_response)>>
            /\ idx' = 1
            /\ pc' = "tools"
            /\ UNCHANGED <<result, returned_at>>
    /\ UNCHANGED <<current_model, last_op, user_message, raw_response, requests, sent,
                   tool_log, raised, varied, called_with>>
    /\ UNCHANGED <<todos, todo_call>>

\* LoopHead with "while turn <= max_turns": one round more than the cap
LoopHead_one_round_more ==
    /\ pc = "loop"
    /\ IF turn <= max_turns
       THEN /\ turn' = turn + 1
            /\ json_objects' = extract_json_objects(raw_response)
            /\ IF json_objects' = <<>>
               THEN /\ result' = raw_response
                    /\ returned_at' = 763
                    /\ pc' = "idle"
                    /\ UNCHANGED <<conversation_history, idx>>
               ELSE /\ conversation_history' =
                          conversation_history \o <<Turn("user", user_message),
                                                    Turn("assistant", raw_response)>>
                    /\ idx' = 1
                    /\ pc' = "tools"
                    /\ UNCHANGED <<result, returned_at>>
       ELSE /\ result' = raw_response
            /\ returned_at' = 846
            /\ pc' = "idle"
            /\ UNCHANGED <<conversation_history, turn, json_objects, idx>>
    /\ UNCHANGED <<current_model, last_op, user_message, raw_response, requests, sent,
                   tool_log, raised, varied, called_with>>
    /\ UNCHANGED <<todos, todo_call>>

\* LoopHead appending the user turn in the first round of a call only
LoopHead_user_turn_once ==
    /\ pc = "loop"
    /\ IF turn < max_turns
       THEN /\ turn' = turn + 1
            /\ json_objects' = extract_json_objects(raw_response)
            /\ IF json_objects' = <<>>
               THEN /\ result' = raw_response
                    /\ returned_at' = 763
                    /\ pc' = "idle"
                    /\ UNCHANGED <<conversation_history, idx>>
               ELSE /\ conversation_history' =
                          conversation_history
                              \o (IF turn = 0 THEN <<Turn("user", user_message)>> ELSE <<>>)
                              \o <<Turn("assistant", raw_response)>>
                    /\ idx' = 1
                    /\ pc' = "tools"
                    /\ UNCHANGED <<result, returned_at>>
       ELSE /\ result' = raw_response
            /\ returned_at' = 846
            /\ pc' = "idle"
            /\ UNCHANGED <<conversation_history, turn, json_objects, idx>>
    /\ UNCHANGED <<current_model, last_op, user_message, raw_response, requests, sent,
                   tool_log, raised, varied, called_with>>
    /\ UNCHANGED <<todos, todo_call>>

\* lines 754-773 and 846: the head of the while loop
LoopHead ==
    /\ pc = "loop"
    /\ IF turn < max_turns
       THEN /\ turn' = turn + 1
            /\ json_objects' = extract_json_objects(raw_response)
            /\ IF json_objects' = <<>>
               THEN /\ result' = raw_response
                    /\ returned_at' = 763
                    /\ pc' = "idle"
                    /\ UNCHANGED <<conversation_history, idx>>
               ELSE /\ conversation_history' =
                          conversation_history \o <<Turn("user", user_message),
                                                    Turn("assistant", raw_response)>>
                    /\ idx' = 1
                    /\ pc' = "tools"
                    /\ UNCHANGED <<result, returned_at>>
       ELSE /\ result' = raw_response
            /\ returned_at' = 846
            /\ pc' = "idle"
            /\ UNCHANGED <<conversation_history, turn, json_objects, idx>>
    /\ UNCHANGED <<current_model, last_op, user_message, raw_response, requests, sent,
                   tool_log, raised, varied, called_with>>
    /\ UNCHANGED <<todos, todo_call>>

\* ToolStep storing the result over the last turn instead of appending it
ToolStep_overwrites ==
    /\ pc = "tools"
    /\ is_dispatched(json_objects[idx])
    /\ LET tool_name == GetKey(json_objects[idx], "tool")
           d == dispatch(tool_name, GetKey(json_objects[idx], "parameters"))
       IN  /\ conversation_history' =
                  [conversation_history EXCEPT ![Len(conversation_history)] =
                       Turn("tool_output", d.tool_result)]
           /\ tool_log' = Append(tool_log, [turn |-> turn, idx |-> idx,
                                            at |-> Len(conversation_history),
                                            tool |-> name_text(tool_name),
                                            outcome |-> d.outcome])
    /\ idx' = idx + 1
    /\ pc' = IF idx = Len(json_objects) THEN "followup" ELSE "tools"
    /\ UNCHANGED <<current_model, last_op, user_message, raw_response, json_objects, turn,
                   result, returned_at, requests, sent, raised, varied, called_with>>
    /\ UNCHANGED <<todos, todo_call>>

\* ToolStep appending the result to the history once for line 815 and once
\* more for line 816
ToolStep_appends_twice ==
    /\ pc = "tools"
    /\ LET tool_call_data == json_objects[idx]
       IN  IF is_dispatched(tool_call_data)
           THEN LET tool_name == GetKey(tool_call_data, "tool")
                    d == dispatch(tool_name, GetKey(tool_call_data, "parameters"))
                IN  /\ conversation_history' =
                           conversation_history \o <<Turn("tool_output", d.tool_result),
                                                     Turn("tool_output", d.tool_result)>>
                    /\ tool_log' = Append(tool_log, [turn |-> turn, idx |-> idx,
                                                     at |-> Len(conversation_history) + 1,
                                                     tool |-> name_text(tool_name),
                                                     outcome |-> d.outcome])
           ELSE UNCHANGED <<conversation_history, tool_log>>
    /\ idx' = idx + 1
    /\ pc' = IF idx = Len(json_objects) THEN "followup" ELSE "tools"
    /\ UNCHANGED <<current_model, last_op, user_message, raw_response, json_objects, turn,
                   result, returned_at, requests, sent, raised, varied, called_with>>
    /\ UNCHANGED <<todos, todo_call>>

\* ToolStep taking the calls of the batch from the last one to the first
ToolStep_last_call_first ==
    /\ pc = "tools"
    /\ LET at_call == Len(json_objects) - idx + 1
           tool_call_data == json_objects[at_call]
       IN  IF is_dispatched(tool_call_data)
           THEN LET tool_name == GetKey(tool_call_data, "tool")
                    d == dispatch(tool_name, GetKey(tool_call_data, "parameters"))
                IN  /\ conversation_history' =
                           Append(conversation_history, Turn("tool_output", d.tool_result))
                    /\ tool_log' = Append(tool_log, [turn |-> turn, idx |-> at_call,
                                                     at |-> Len(conversation_history) + 1,
                                                     tool |-> name_text(tool_name),
                                                     outcome |-> d.outcome])
           ELSE UNCHANGED <<conversation_history, tool_log>>
    /\ idx' = idx + 1
    /\ pc' = IF idx = Len(json_objects) THEN "followup" ELSE "tools"
    /\ UNCHANGED <<current_model, last_op, user_message, raw_response, json_objects, turn,
                   result, returned_at, requests, sent, raised, varied, called_with>>
    /\ UNCHANGED <<todos, todo_call>>

\* lines 777-816: one iteration of the for loop over json_objects; a log entry
\* records the batch (turn), the call (idx) and the place of its result turn (at)
ToolStep ==
    /\ pc = "tools"
    /\ LET tool_call_data == json_objects[idx]
       IN  IF is_dispatched(tool_call_data)
           THEN LET tool_name == GetKey(tool_call_data, "tool")
                    d == dispatch(tool_name, GetKey(tool_call_data, "parameters"))
                IN  /\ conversation_history' =
                           Append(conversation_history, Turn("tool_output", d.tool_result))
                    /\ tool_log' = Append(tool_log, [turn |-> turn, idx |-> idx,
                                                     at |-> Len(conversation_history) + 1,
                                                     tool |-> name_text(tool_name),
                                                     outcome |-> d.outcome])
           ELSE UNCHANGED <<conversation_history, tool_log>>
    /\ idx' = idx + 1
    /\ pc' = IF idx = Len(json_objects) THEN "followup" ELSE "tools"
    /\ UNCHANGED <<current_model, last_op, user_message, raw_response, json_objects, turn,
                   result, returned_at, requests, sent, raised, varied, called_with>>
    /\ UNCHANGED <<todos, todo_call>>

\* FollowUp sending only the turns of this call, not the turns it found
FollowUp_sends_new_turns(r) ==
    /\ pc = "followup"
    /\ sent' = <<system_message>>
                   \o SubSeq(conversation_history, Len(called_with) + 1,
                             Len(conversation_history))
    /\ requests' = requests + 1
    /\ raw_response' = r
    /\ varied' = Spend(r)
    /\ pc' = "loop"
    /\ UNCHANGED <<conversation_history, current_model, last_op, user_message,
                   json_objects, turn, idx, result, returned_at, tool_log, raised,
                   called_with>>
    /\ UNCHANGED <<todos, todo_call>>

\* lines 818-840: the follow-up request is answered with r
FollowUp(r) ==
    /\ pc = "followup"
    /\ sent' = <<system_message>> \o conversation_history
    /\ requests' = requests + 1
    /\ raw_response' = r
    /\ varied' = Spend(r)
    /\ pc' = "loop"
    /\ UNCHANGED <<conversation_history, current_model, last_op, user_message,
                   json_objects, turn, idx, result, returned_at, tool_log, raised,
                   called_with>>
    /\ UNCHANGED <<todos, todo_call>>

\* FollowUpFails posting the request again instead of returning
FollowUpFails_retries(e) ==
    /\ pc = "followup"
    /\ sent' = <<system_message>> \o conversation_history
    /\ requests' = requests + 1
    /\ raised' = e
    /\ pc' = "followup"
    /\ UNCHANGED <<conversation_history, current_model, last_op, user_message,
                   raw_response, json_objects, turn, idx, result, returned_at, tool_log,
                   varied, called_with>>
    /\ UNCHANGED <<todos, todo_call>>

\* lines 832-838 raise e, line 844 returns
FollowUpFails(e) ==
    /\ pc = "followup"
    /\ sent' = <<system_message>> \o conversation_history
    /\ requests' = requests + 1
    /\ raised' = e
    /\ result' = <<"Error getting follow-up from model: ", e>>
    /\ returned_at' = 844
    /\ pc' = "idle"
    /\ UNCHANGED <<conversation_history, current_model, last_op, user_message,
                   raw_response, json_objects, turn, idx, tool_log, varied, called_with>>
    /\ UNCHANGED <<todos, todo_call>>

\* ClearHistory starting a fresh session with the default model
ClearHistory_resets_model ==
    /\ pc = "idle"
    /\ last_op' = "clear_history"
    /\ conversation_history' = <<>>
    /\ current_model' = default_model
    /\ ForgetCall
    /\ UNCHANGED pc
    /\ UNCHANGED <<todos, todo_call>>

\* lines 853-856
ClearHistory ==
    /\ pc = "idle"
    /\ last_op' = "clear_history"
    /\ conversation_history' = <<>>
    /\ ForgetCall
    /\ UNCHANGED <<current_model, pc>>
    /\ UNCHANGED <<todos, todo_call>>

\* lines 570-577: available is what list_available_models answers
SwitchModel(model_name, available) ==
    /\ pc = "idle"
    /\ last_op' = "switch_model"
    /\ current_model' = IF model_name \in available THEN model_name ELSE current_model
    /\ ForgetCall
    /\ UNCHANGED <<conversation_history, pc>>
    /\ UNCHANGED <<todos, todo_call>>

\* lines 858-877: writes a file and reads the agent's state only
SaveHistory ==
    /\ pc = "idle"
    /\ last_op' = "save_history"
    /\ ForgetCall
    /\ UNCHANGED <<conversation_history, current_model, pc>>
    /\ UNCHANGED <<todos, todo_call>>

Next ==
    \/ \E msg \in UserMessages, r \in ResponseTexts : SendMessage(msg, r)
    \/ \E msg \in UserMessages, e \in TransportErrors : SendMessageFails(msg, e)
    \/ LoopHead
    \/ ToolStep
    \/ \E r \in Answers : FollowUp(r)
    \/ \E e \in TransportErrors : FollowUpFails(e)
    \/ ClearHistory
    \/ \E m \in Models \cup {"unknown-model"}, available \in SUBSET Models : SwitchModel(m, available)
    \/ SaveHistory

Spec == Init /\ [][Next]_vars

\* a follow-up request comes back, with a response or with an error
ModelReturns ==
    \/ \E r \in Answers : FollowUp(r)
    \/ \E e \in TransportErrors : FollowUpFails(e)

\* one send_message call on a new agent, run to its return
CallNext ==
    \/ /\ last_op = "none"
       /\ \/ \E msg \in UserMessages, r \in ResponseTexts : SendMessage(msg, r)
          \/ \E msg \in UserMessages, e \in TransportErrors : SendMessageFails(msg, e)
    \/ LoopHead
    \/ ToolStep
    \/ ModelReturns

\* send_message runs in one thread and nothing suspends it: the loop head and
\* the tool loop take their next step, and every follow-up request returns.
\* The condition on LoopHead is WF_vars(LoopHead) with ENABLED <<LoopHead>>_vars
\* written out: the loop head can take a step exactly when pc = "loop", and the
\* step changes turn or pc
SpecLive ==
    /\ Init
    /\ [][CallNext]_vars
    /\ ([]<>(pc # "loop") \/ []<><<LoopHead>>_vars)
    /\ WF_vars(ToolStep)
    /\ WF_vars(ModelReturns)

(***************************************************************************)
(* The scanner alone: a text put together from at most MaxSegs segments is *)
(* scanned once.                                                           *)
(***************************************************************************)
FilePath == <<"{">> \o Q("file_path") \o <<":">> \o Q("a.txt") \o <<"}">>
\* {"file_path":"a.txt","content":"}"}: a string argument that holds a closing brace
BraceContent ==
    <<"{">> \o Q("file_path") \o <<":">> \o Q("a.txt") \o <<",">> \o Q("content")
        \o <<":", QT, "}", QT, "}">>

ReadCall == ToolCall("read_file", FilePath)
BraceCall == ToolCall("write_file", BraceContent)

\* objects that json.loads accepts and that carry "tool" and "parameters"
WellFormedCalls == {ListCall, ReadCall, BraceCall}
\* prose: words, blanks, line ends
ProseTexts == {Prose, <<".", NL, "Next", ":", SP>>}

\* calls whose strings hold no brace
PlainCalls == {ListCall, ReadCall}
\* spans json.loads rejects: balanced, opened and never closed, closed and never opened
MalformedSpans == {<<"{", "oops", "}">>, <<"{">>, <<"}">>}

Segments == WellFormedCalls \cup ProseTexts \cup MalformedSpans \cup {NoParameters}

\* segments a text is put together from
MaxSegs == 3

RECURSIVE TextsOf(_)
TextsOf(n) ==
    IF n = 0 THEN {<<>>}
    ELSE TextsOf(n - 1) \cup {t \o g : t \in TextsOf(n - 1), g \in Segments}

ScanTexts == TextsOf(MaxSegs)

ScanInit ==
    /\ conversation_history = <<>>
    /\ current_model = default_model
    /\ pc = "scan"
    /\ last_op = "none"
    /\ user_message = <<>>
    /\ raw_response \in ScanTexts
    /\ json_objects = <<>>
    /\ turn = 0
    /\ idx = 0
    /\ result = <<>>
    /\ returned_at = 0
    /\ requests = 0
    /\ sent = <<>>
    /\ tool_log = <<>>
    /\ raised = "none"
    /\ varied = 0
    /\ called_with = <<>>
    /\ todos = <<>>
    /\ todo_call = no_todo_call

\* line 758 on its own
Scan ==
    /\ pc = "scan"
    /\ json_objects' = extract_json_objects(raw_response)
    /\ pc' = "scanned"
    /\ UNCHANGED <<conversation_history, current_model, last_op, user_message,
                   raw_response, turn, idx, result, returned_at, requests, sent, tool_log,
                   raised, varied, called_with>>
    /\ UNCHANGED <<todos, todo_call>>

\* Rescan adding what it finds to what the scan before it found
Rescan_accumulates ==
    /\ pc = "scanned"
    /\ json_objects' = json_objects \o extract_json_objects(raw_response)
    /\ pc' = "rescanned"
    /\ UNCHANGED <<conversation_history, current_model, last_op, user_message,
                   raw_response, turn, idx, result, returned_at, requests, sent, tool_log,
                   raised, varied, called_with>>
    /\ UNCHANGED <<todos, todo_call>>

\* the scanner called again on the same text, as line 758 does after line 733
Rescan ==
    /\ pc = "scanned"
    /\ json_objects' = extract_json_objects(raw_response)
    /\ pc' = "rescanned"
    /\ UNCHANGED <<conversation_history, current_model, last_op, user_message,
                   raw_response, turn, idx, result, returned_at, requests, sent, tool_log,
                   raised, varied, called_with>>
    /\ UNCHANGED <<todos, todo_call>>

ScanNext == Scan \/ Rescan

SpecScan == ScanInit /\ [][ScanNext]_vars

(***************************************************************************)
(* The scanner on fenced text: a text is a row of at most MaxBlocks        *)
(* blocks, each one prose, an opening fence, a body and a closing fence    *)
(* (any of them may be missing).                                           *)
(***************************************************************************)
\* the prose of the spec's example
WillCheck == <<"I", SP, "will", SP, "check", ".">>
FencePres == {<<>>, WillCheck}
\* an opening fence with the json tag, with no tag, with another tag
FenceOpens ==
    {<<>>, <<NL, FENCE, "json", NL>>, <<FENCE, "json", NL>>, <<FENCE, NL>>,
     <<FENCE, "python", NL>>}
FenceCloses == {<<>>, <<NL, FENCE>>, <<FENCE>>}
\* {"tool":<fence>"list_directory","parameters":{}}: no JSON until the fence is taken out
FenceInside ==
    <<"{">> \o Q("tool") \o <<":", FENCE>> \o Q("list_directory") \o <<",">>
        \o Q("parameters") \o <<":">> \o EmptyParams \o <<"}">>
FenceBodies == {ListCall, BraceCall, NoParameters, FilePath, <<"{", "oops", "}">>, FenceInside}

Blocks ==
    {pre \o open \o body \o close :
        pre \in FencePres, open \in FenceOpens, body \in FenceBodies, close \in FenceCloses}

\* blocks a fenced text is put together from
MaxBlocks == 1

RECURSIVE FencedTexts(_)
FencedTexts(n) ==
    IF n = 0 THEN {<<>>}
    ELSE FencedTexts(n - 1) \cup {t \o b : t \in FencedTexts(n - 1), b \in Blocks}

FenceInit ==
    /\ conversation_history = <<>>
    /\ current_model = default_model
    /\ pc = "scan"
    /\ last_op = "none"
    /\ raw_response \in FencedTexts(MaxBlocks)
    /\ NoCallButResponse
    /\ todos = <<>>
    /\ todo_call = no_todo_call

SpecFence == FenceInit /\ [][ScanNext]_vars

(***************************************************************************)
(* The dispatch alone: send_message was called on an empty history, the    *)
(* model answered with a row of at most MaxBatch tool calls, and the loop  *)
(* stands before its first call (line 777).  A call names a tool of the    *)
(* chain or the misspelt one and gives any choice of the tool's parameters *)
(* and of "filename", a keyword no tool takes, all with the same value.    *)
(***************************************************************************)
RECURSIVE MembersText(_, _)
MembersText(keys, value) ==
    IF keys = <<>> THEN <<>>
    ELSE Q(keys[1]) \o <<":">> \o value
             \o (IF Len(keys) > 1 THEN <<",">> ELSE <<>>) \o MembersText(Tail(keys), value)

\* {"<key>":<value>,...}
ObjectText(keys, value) == <<"{">> \o MembersText(keys, value) \o <<"}">>

\* the keywords a call of name may give, in the order it gives them
KeywordOrder(name) ==
    <<"filename">> \o (IF name \in ToolNames THEN Params(name) ELSE <<>>)

KeywordChoices(name) ==
    {SelectSeq(KeywordOrder(name), LAMBDA w : w \in given) :
        given \in SUBSET {KeywordOrder(name)[n] : n \in 1..Len(KeywordOrder(name))}}

\* a string and a number
ValueTexts == {Q("a.txt"), <<"0">>}

CallsOf(name) ==
    {ToolCall(name, ObjectText(keys, value)) :
        keys \in KeywordChoices(name), value \in ValueTexts}

\* "parameters" values that are no object: an array, a string, a number, null
NonObjectTexts == {<<"[", "]">>, Q("a.txt"), <<"0">>, <<"null">>}

NonObjectCalls ==
    {ToolCall(name, value) : name \in {"list_directory", "write_fil"}, value \in NonObjectTexts}

DispatchCalls ==
    UNION {CallsOf(name) :
              name \in {"read_file", "write_file", "list_directory", "check_file_exists",
                        "manage_todo", "copy_file", "write_fil"}}
        \cup NonObjectCalls

\* calls in one response
MaxBatch == 1

RECURSIVE Batches(_)
Batches(n) ==
    IF n = 1 THEN DispatchCalls
    ELSE Batches(n - 1) \cup {t \o Prose \o c : t \in Batches(n - 1), c \in DispatchCalls}

DispatchInit ==
    /\ current_model = default_model
    /\ last_op = "send_message"
    /\ user_message \in UserMessages
    /\ raw_response \in Batches(MaxBatch)
    /\ called_with = <<>>
    /\ sent = <<system_message, Turn("user", user_message)>>
    /\ requests = 1
    /\ raised = "none"
    /\ varied = 1
    /\ turn = 1
    /\ json_objects = extract_json_objects(raw_response)
    /\ conversation_history = <<Turn("user", user_message), Turn("assistant", raw_response)>>
    /\ idx = 1
    /\ tool_log = <<>>
    /\ result = <<>>
    /\ returned_at = 0
    /\ pc = "tools"
    /\ todos = <<>>
    /\ todo_call = no_todo_call

DispatchNext == ToolStep

SpecDispatch == DispatchInit /\ [][DispatchNext]_vars

(***************************************************************************)
(* The fallback parse: the model answered with one JSON value, a bare      *)
(* object or an array of at most MaxArray objects, as it is or inside a    *)
(* json fence, or with prose in front; lines 733-748 have run and the loop *)
(* stands at line 754.                                                     *)
(***************************************************************************)
\* {"file_path":"a.txt","content":"{"}: a string argument that holds an opening brace
OpenBraceContent ==
    <<"{">> \o Q("file_path") \o <<":">> \o Q("a.txt") \o <<",">> \o Q("content")
        \o <<":", QT, "{", QT, "}">>
OpenBraceCall == ToolCall("write_file", OpenBraceContent)

\* {"file_path":"a.md","content":"a <fence> b"}: a string argument that holds a fence
FenceContent ==
    <<"{">> \o Q("file_path") \o <<":">> \o Q("a.md") \o <<",">> \o Q("content")
        \o <<":", QT, "a", SP, FENCE, SP, "b", QT, "}">>
FenceStringCall == ToolCall("write_file", FenceContent)

\* the objects of an answer: calls, a call without "parameters", a dict without "tool"
FallbackObjects ==
    {ListCall, ReadCall, BraceCall, OpenBraceCall, FenceStringCall, NoParameters, FilePath}

\* objects in one array
MaxArray == 2

\* e1,e2,...: n objects with commas between them
RECURSIVE ArrayElements(_)
ArrayElements(n) ==
    IF n = 1 THEN FallbackObjects
    ELSE {t \o <<",", SP>> \o o : t \in ArrayElements(n - 1), o \in FallbackObjects}

JsonValues ==
    FallbackObjects
        \cup UNION {{<<"[">> \o t \o <<"]">> : t \in ArrayElements(n)} : n \in 1..MaxArray}

FallbackTexts ==
    JsonValues
        \cup {<<FENCE, "json", NL>> \o v \o <<NL, FENCE>> : v \in JsonValues}
        \cup {WillCheck \o <<NL>> \o v : v \in FallbackObjects}

FallbackInit ==
    /\ conversation_history = <<>>
    /\ current_model = default_model
    /\ last_op = "send_message"
    /\ user_message \in UserMessages
    /\ raw_response \in FallbackTexts
    /\ called_with = <<>>
    /\ sent = <<system_message, Turn("user", user_message)>>
    /\ requests = 1
    /\ raised = "none"
    /\ varied = 1
    /\ json_objects = initial_json_objects(raw_response)
    /\ turn = 0
    /\ idx = 0
    /\ tool_log = <<>>
    /\ result = <<>>
    /\ returned_at = 0
    /\ pc = "loop"
    /\ todos = <<>>
    /\ todo_call = no_todo_call

FallbackNext == LoopHead \/ ToolStep

SpecFallback == FallbackInit /\ [][FallbackNext]_vars

(***************************************************************************)
(* manage_todo (lines 157-227) called on its own.  The stored list is a    *)
(* sequence of entries [text, completed] (created_at, a time stamp, is     *)
(* left out); an argument that is None or left out is <<>>, one that is    *)
(* given is <<value>>.                                                     *)
(***************************************************************************)
\* str.isdigit and int on the strings of the model
isdigit(text) == text \in {"0", "1", "2"}
int(text) == CASE text = "0" -> 0 [] text = "1" -> 1 [] text = "2" -> 2

\* "not item": None and the empty string are false
item_given(item) == item # <<>> /\ item[1] # ""

\* lines 188-192 and 206-210: the index, or the item read as one
index_of(item, index) ==
    IF index # <<>> THEN index
    ELSE IF item_given(item) /\ isdigit(item[1]) THEN <<int(item[1])>>
    ELSE <<>>

\* todo_remove taking the last entry, whatever the index
todo_remove_last(stored, i) == SubSeq(stored, 1, Len(stored) - 1)

\* line 216: todos.pop(index)
todo_remove(stored, i) ==
    [k \in 1..(Len(stored) - 1) |-> IF k <= i THEN stored[k] ELSE stored[k + 1]]

\* lines 173-177: one line for each entry
RECURSIVE todo_lines(_, _)
todo_lines(stored, k) ==
    IF k > Len(stored) THEN <<>>
    ELSE <<k - 1, IF stored[k].completed THEN "[x]" ELSE "[ ]", stored[k].text>>
             \o todo_lines(stored, k + 1)

\* what the call leaves in todo.json and what it returns
manage_todo(stored, action, item, index) ==
    LET i == index_of(item, index)
    IN  CASE action = "list" ->
                 [todos |-> stored,
                  returned |-> IF stored = <<>> THEN <<"TODO list is empty.">>
                               ELSE <<"Current TODO List:">> \o todo_lines(stored, 1)]
          [] action = "add" ->
                 IF ~item_given(item)
                 THEN [todos |-> stored,
                       returned |-> <<"Error: ", "'item' is required for 'add' action.">>]
                 ELSE [todos |-> Append(stored, [text |-> item[1], completed |-> FALSE]),
                       returned |-> <<"Added: '", item[1], "'">>]
          [] action = "complete" ->
                 IF i = <<>>
                 THEN [todos |-> stored,
                       returned |-> <<"Error: ", "'index' is required for 'complete' action.">>]
                 ELSE IF 0 <= i[1] /\ i[1] < Len(stored)
                 THEN [todos |-> [stored EXCEPT ![i[1] + 1].completed = TRUE],
                       returned |-> <<"Completed item ", i[1], ": '", stored[i[1] + 1].text, "'">>]
                 ELSE [todos |-> stored,
                       returned |-> <<"Error: ", "Index ", i[1], " out of range.">>]
          [] action = "remove" ->
                 IF i = <<>>
                 THEN [todos |-> stored,
                       returned |-> <<"Error: ", "'index' is required for 'remove' action.">>]
                 ELSE IF 0 <= i[1] /\ i[1] < Len(stored)
                 THEN [todos |-> todo_remove(stored, i[1]),
                       returned |-> <<"Removed item ", i[1], ": '", stored[i[1] + 1].text, "'">>]
                 ELSE [todos |-> stored,
                       returned |-> <<"Error: ", "Index ", i[1], " out of range.">>]
          [] OTHER ->
                 [todos |-> stored,
                  returned |-> <<"Error: ", "Unknown action '", action, "'">>]

\* entries the stored list may come to hold
MaxTodos == 2

TodoActions == {"list", "add", "complete", "remove", "purge"}
TodoItems == {<<>>, <<"">>, <<"milk">>, <<"eggs">>, <<"1">>}
TodoIndexes == {<<>>} \cup {<<i>> : i \in (0 - 1)..MaxTodos}

ManageTodo(action, item, index) ==
    /\ pc = "idle"
    /\ action = "add" => Len(todos) < MaxTodos
    /\ last_op' = "manage_todo"
    /\ todos' = manage_todo(todos, action, item, index).todos
    /\ todo_call' = [action |-> action, item |-> item, index |-> index,
                     returned |-> manage_todo(todos, action, item, index).returned]
    /\ UNCHANGED <<conversation_history, current_model, pc, user_message, raw_response,
                   json_objects, turn, idx, result, returned_at, requests, sent, tool_log,
                   raised, varied, called_with>>

TodoNext ==
    \E action \in TodoActions, item \in TodoItems, index \in TodoIndexes :
        ManageTodo(action, item, index)

SpecTodo == Init /\ [][TodoNext]_vars

(***************************************************************************)
(* The claims.                                                             *)
(***************************************************************************)
\* send_message has just returned and nothing was called since
Returned == pc = "idle" /\ last_op = "send_message" /\ returned_at # 0

IsPrefix(a, b) == Len(a) <= Len(b) /\ SubSeq(b, 1, Len(a)) = a

\* the words of tool occur in content, in a row
Names(content, tool) ==
    \E k \in 1..Len(content) :
        k + Len(tool) - 1 <= Len(content) /\ SubSeq(content, k, k + Len(tool) - 1) = tool

\* C1: one call of send_message posts at most max_turns chat requests, the
\* initial one and the follow-ups together.
C1_RequestsWithinCap == requests <= max_turns

\* C2: from an empty conversation, a first response with exactly one tool call
\* and a second one without any make send_message return the second text and
\* leave the history user, assistant (first), tool result, assistant (second).
\* (turn = 2 and the return of line 763: the first response had tool calls and
\* the second none; the follow-up sent system + three turns: the conversation
\* was empty and one call was dispatched.)
C2_RoundTrip ==
    (/\ Returned
     /\ returned_at = 763
     /\ turn = 2
     /\ Len(sent) = 4
     /\ Len(extract_json_objects(sent[3].content)) = 1)
    => /\ result = raw_response
       /\ conversation_history =
              <<Turn("user", user_message), sent[3], sent[4], Turn("assistant", raw_response)>>

is_unknown(tool_call_data) ==
    ~\E w \in ToolNames : is_tool(GetKey(tool_call_data, "tool"), w)

\* C4: a tool call that raises does not end send_message: its error is
\* appended as a tool-result turn, the exchange goes on (the batch is still
\* running, or done, or its follow-up request was posted), and once the batch
\* is done every later tool call of it (every later object with a "tool" key)
\* was executed too.
C4_RaiseIsContained ==
    \A n \in 1..Len(tool_log) :
        tool_log[n].outcome \in {"bind_error", "body_error"}
        => /\ \/ pc \in {"tools", "followup"} /\ turn = tool_log[n].turn
              \/ requests > tool_log[n].turn
           /\ returned_at # 851
           /\ tool_log[n].at <= Len(conversation_history)
           /\ conversation_history[tool_log[n].at].role = "tool_output"
           /\ IsPrefix(<<"Error executing tool '">> \o tool_log[n].tool \o <<"': ">>,
                       conversation_history[tool_log[n].at].content)
           /\ (pc = "followup" /\ turn = tool_log[n].turn)
              => \A j \in (tool_log[n].idx + 1)..Len(json_objects) :
                     has_tool(json_objects[j])
                     => \E m \in 1..Len(tool_log) :
                            tool_log[m].turn = turn /\ tool_log[m].idx = j

\* C5: every tool call of a finished batch whose name is no tool of the chain
\* was answered from the else branch; that answer is an error tool-result turn
\* in the history that names the tool, the exchange goes on, and the follow-up
\* request carries that turn.
C5_UnknownToolIsReported ==
    /\ pc = "followup"
       => \A j \in 1..Len(json_objects) :
              (has_tool(json_objects[j]) /\ is_unknown(json_objects[j]))
              => \E n \in 1..Len(tool_log) :
                     /\ tool_log[n].turn = turn
                     /\ tool_log[n].idx = j
                     /\ tool_log[n].outcome = "unknown"
    /\ \A n \in 1..Len(tool_log) :
           tool_log[n].outcome = "unknown"
           => /\ \/ pc \in {"tools", "followup"} /\ turn = tool_log[n].turn
                 \/ requests > tool_log[n].turn
              /\ returned_at # 851
              /\ tool_log[n].at <= Len(conversation_history)
              /\ conversation_history[tool_log[n].at].role = "tool_output"
              /\ conversation_history[tool_log[n].at].content[1] = "Error: Unknown tool '"
              /\ Names(conversation_history[tool_log[n].at].content, tool_log[n].tool)
              /\ requests > tool_log[n].turn
                 => /\ tool_log[n].at + 1 <= Len(sent)
                    /\ sent[tool_log[n].at + 1] = conversation_history[tool_log[n].at]

\* C6: once a chat request of send_message has raised, the call has returned
\* an error message that describes the failure, and the failed request was
\* its last step: it is the request after the last batch.
C6_TransportFailureIsTerminal ==
    raised # "none"
    => /\ pc = "idle"
       /\ result \in {<<"Error communicating with Ollama: ", raised>>,
                      <<"Error getting follow-up from model: ", raised>>}
       /\ requests = turn + 1
       /\ \A n \in 1..Len(tool_log) : tool_log[n].turn <= turn

C6_Witness ==
    /\ raised # "none"
    /\ returned_at = 844
    /\ tool_log # <<>>

\* C7: the loop never starts a round beyond the cap, and the return taken at
\* the cap gives the last response received, as it is, not an error.
C7_CapReturnsLastResponse ==
    /\ turn <= max_turns
    /\ (Returned /\ returned_at = 846)
       => /\ result = raw_response
          /\ raised = "none"
          /\ turn = max_turns
          /\ sent = <<system_message>> \o conversation_history

C7_Witness ==
    /\ Returned
    /\ returned_at = 846
    /\ extract_json_objects(raw_response) # <<>>

\* C8: a step of any operation but clear_history leaves the history it found
\* as a prefix of the history it leaves.
C8_AppendOnly ==
    [][last_op' # "clear_history"
        => IsPrefix(conversation_history, conversation_history')]_vars

\* a second send_message has put a tool result behind the turns it found
C8_Witness ==
    /\ pc = "followup"
    /\ Len(sent) > 2
    /\ tool_log # <<>>
    /\ tool_log[1].at > 3

\* C9: a step that shortens the history is a clear_history, and clear_history
\* leaves no turn and the model that was current.
C9_OnlyClearEmpties ==
    [][/\ Len(conversation_history') < Len(conversation_history)
          => pc = "idle" /\ last_op' = "clear_history"
       /\ (pc = "idle" /\ last_op' = "clear_history")
          => conversation_history' = <<>> /\ current_model' = current_model]_vars

C9_Witness ==
    /\ last_op = "clear_history"
    /\ conversation_history = <<>>
    /\ current_model # default_model

\* C10: a text made of a well-formed tool call, prose, and a second well-formed
\* tool call is scanned into exactly these two calls, in this order.
C10_BothCallsInOrder ==
    pc = "scanned"
    => \A a \in WellFormedCalls, b \in WellFormedCalls, p \in ProseTexts :
           raw_response = a \o p \o b
           => json_objects = <<json_loads(a).val, json_loads(b).val>>

\* C11: a malformed span between two valid tool calls (balanced or not) leaves
\* both calls extracted, the earlier one first.
C11_MalformedBetween ==
    pc = "scanned"
    => \A a \in PlainCalls, b \in PlainCalls, m \in MalformedSpans :
           raw_response = a \o m \o b
           => json_objects = <<json_loads(a).val, json_loads(b).val>>

\* a balanced brace span of the text parses to an object with a "tool" key
HasToolSpan(t) ==
    \E i \in 1..Len(t), j \in 1..Len(t) :
        /\ i < j
        /\ t[i] = "{"
        /\ t[j] = "}"
        /\ LET o == json_loads(Slice(t, i, j))
           IN  /\ o.ok
               /\ o.val.kind = "obj"
               /\ \E n \in 1..Len(o.val.sub) : o.val.sub[n].k = <<"tool">>

\* C12 as stated: a text that holds no balanced brace span parsing to an
\* object with a "tool" key is scanned into the empty sequence.
C12_NoSpanNoCall ==
    (pc = "scanned" /\ ~HasToolSpan(raw_response)) => json_objects = <<>>

\* C12 amended: a text that, once its fences are stripped, holds no balanced
\* brace span parsing to an object with a "tool" key is scanned into the empty
\* sequence.
C12_NoSpanAfterStripNoCall ==
    (pc = "scanned" /\ ~HasToolSpan(strip_fences(raw_response))) => json_objects = <<>>

\* a fenced object without a "tool" key was scanned
C12_Witness ==
    /\ pc = "scanned"
    /\ raw_response = WillCheck \o <<NL, FENCE, "json", NL>> \o FilePath \o <<NL, FENCE>>
    /\ json_objects = <<>>

\* C13: a tool call wrapped in fences (tagged or not) and preceded by prose is
\* extracted as the bare call is; for the list_directory call with empty
\* parameters that is exactly this one call.
C13_FencesChangeNothing ==
    pc = "scanned"
    => \A pre \in FencePres, open \in FenceOpens, close \in FenceCloses,
          body \in {ListCall, BraceCall, NoParameters} :
           raw_response = pre \o open \o body \o close
           => /\ json_objects = extract_json_objects(body)
              /\ body = ListCall
                 => /\ Len(json_objects) = 1
                    /\ GetKey(json_objects[1], "tool") = JStr(<<"list_directory">>)
                    /\ GetKey(json_objects[1], "parameters") = JObj(<<>>)

\* the spec's example was scanned
C13_Witness ==
    /\ pc = "scanned"
    /\ raw_response = WillCheck \o <<NL, FENCE, "json", NL>> \o ListCall \o <<NL, FENCE>>
    /\ Len(json_objects) = 1

\* the parameters without a default that a call of a tool of the chain leaves out
Omitted(tool_call_data) ==
    LET tool_params == GetKey(tool_call_data, "parameters")
        name == CHOOSE w \in ToolNames : is_tool(GetKey(tool_call_data, "tool"), w)
    IN  {w \in Signature(name).req : <<w>> \notin KeysOf(tool_params)}

\* C14: a dispatched call of a tool of the chain whose parameters are an object
\* that leaves out a parameter the tool requires does not reach the handler
\* body, and its tool-result turn is an error that names every parameter left out.
C14_MissingIsDescribed ==
    \A n \in 1..Len(tool_log) :
        LET tool_call_data == json_objects[tool_log[n].idx]
        IN  (/\ pc \in {"tools", "followup"}
             /\ tool_log[n].turn = turn
             /\ ~is_unknown(tool_call_data)
             /\ GetKey(tool_call_data, "parameters").kind = "obj"
             /\ Omitted(tool_call_data) # {})
            => /\ tool_log[n].outcome = "bind_error"
               /\ conversation_history[tool_log[n].at].role = "tool_output"
               /\ conversation_history[tool_log[n].at].content[1] = "Error executing tool '"
               /\ \A w \in Omitted(tool_call_data) :
                      Names(conversation_history[tool_log[n].at].content, <<w>>)

\* C15: every step that posts a chat request sends the system message followed
\* by the whole history as it is then, in its order; the initial request of a
\* call ends with the new user turn in addition.
C15_RequestCarriesHistory ==
    [][((pc = "idle" /\ last_op' = "send_message") \/ pc = "followup")
        => sent' = <<system_message>> \o conversation_history'
                       \o (IF pc = "idle" THEN <<Turn("user", user_message')>> ELSE <<>>)]_vars

\* a follow-up request of a call that found turns of an earlier call
C15_Witness ==
    /\ pc = "loop"
    /\ requests = 2
    /\ called_with # <<>>
    /\ sent = <<system_message>> \o conversation_history
    /\ Len(conversation_history) > Len(called_with) + 2

\* every variable but pc and json_objects is left as it was
NothingElseChanges ==
    UNCHANGED <<conversation_history, current_model, last_op, user_message, raw_response,
                turn, idx, result, returned_at, requests, sent, tool_log, raised, varied,
                called_with>>

CountOf(history, role) ==
    Cardinality({n \in 1..Len(history) : history[n].role = role})

\* C17: when send_message has returned a response, every response it received
\* is an assistant turn of the history (one turn more for each request), and
\* the last turn is the response it returned.
C17_ResponsesAreRecorded ==
    (Returned /\ raised = "none")
    => /\ CountOf(conversation_history, "assistant")
              = CountOf(called_with, "assistant") + requests
       /\ conversation_history # <<>>
       /\ conversation_history[Len(conversation_history)] = Turn("assistant", raw_response)

\* C18: when send_message has returned a response, the history holds one user
\* turn more than the call found, the user's message, right behind the turns
\* the call found.
C18_UserTurnOnce ==
    (Returned /\ raised = "none")
    => /\ CountOf(conversation_history, "user") = CountOf(called_with, "user") + 1
       /\ Len(conversation_history) > Len(called_with)
       /\ conversation_history[Len(called_with) + 1] = Turn("user", user_message)

\* the dispatches of the batch of entry up to and with entry
EarlierInBatch(entry) ==
    {m \in 1..Len(tool_log) :
        tool_log[m].turn = entry.turn /\ tool_log[m].idx <= entry.idx}

\* where the result turns of the calls executed so far stand: each behind the
\* assistant turn of its batch, with nothing but the result turns of earlier
\* calls of the batch between them, and in the request posted after the batch
C19_ResultsInPlace ==
    /\ last_op = "send_message"
       => CountOf(conversation_history, "tool_output")
              = CountOf(called_with, "tool_output") + Len(tool_log)
    /\ \A n \in 1..Len(tool_log) :
           \A assistant_at \in {tool_log[n].at - Cardinality(EarlierInBatch(tool_log[n]))} :
               LET entry == tool_log[n]
               IN  /\ entry.at <= Len(conversation_history)
                   /\ \A m \in 1..Len(tool_log) : tool_log[m].at = entry.at => m = n
                   /\ assistant_at > Len(called_with)
                   /\ conversation_history[assistant_at].role = "assistant"
                   /\ \A q \in (assistant_at + 1)..entry.at :
                          /\ conversation_history[q].role = "tool_output"
                          /\ \E m \in EarlierInBatch(entry) : tool_log[m].at = q
                   /\ requests = entry.turn + 1
                      => /\ entry.at + 1 <= Len(sent)
                         /\ sent[entry.at + 1] = conversation_history[entry.at]

\* a step that executes a call appends one turn, the call's result, with no
\* request issued, and the assistant turn of the batch holds the call at the
\* place the log names; while the calls of an exchange are on record the
\* turns before their results stay as they are
C19_ResultIsAppended ==
    /\ Len(tool_log') = Len(tool_log) + 1
       => LET entry == tool_log'[Len(tool_log')]
          IN  /\ SubSeq(tool_log', 1, Len(tool_log)) = tool_log
              /\ conversation_history'
                     = Append(conversation_history, conversation_history'[entry.at])
              /\ entry.at = Len(conversation_history')
              /\ conversation_history'[entry.at].role = "tool_output"
              /\ requests' = requests
              /\ requests = entry.turn
              /\ \A assistant_at \in {entry.at - Cardinality({m \in 1..Len(tool_log') :
                                            tool_log'[m].turn = entry.turn})} :
                     /\ assistant_at \in 1..Len(conversation_history)
                     /\ conversation_history[assistant_at].role = "assistant"
                     /\ \A calls \in {extract_json_objects(
                                           conversation_history[assistant_at].content)} :
                            /\ entry.idx <= Len(calls)
                            /\ name_text(GetKey(calls[entry.idx], "tool")) = entry.tool
    /\ (tool_log # <<>> /\ Len(tool_log') >= Len(tool_log)
           /\ conversation_history' # conversation_history)
       => /\ Len(conversation_history') >= Len(conversation_history)
          /\ SubSeq(conversation_history', 1, Len(conversation_history))
                 = conversation_history

\* C19: every executed call has one tool-result turn of its own, and the call
\* has no other: the turn is appended behind the assistant turn that holds the
\* call, with nothing but the result turns of earlier calls of the batch
\* between them, and the request posted after the batch carries it.
C19_OneResultTurnInPlace ==
    [](C19_ResultsInPlace) /\ [][C19_ResultIsAppended]_vars

\* the request after a batch of two executed calls was posted
C19_Witness ==
    /\ pc = "loop"
    /\ Len(tool_log) >= 2
    /\ tool_log[1].turn = tool_log[2].turn
    /\ requests = tool_log[2].turn + 1

\* C20: the calls of one batch are dispatched one after another in scanner
\* order: when the loop stands before call idx, every dispatched call before
\* it has its result turn in the history already and no call from idx on has
\* been dispatched, so the result turns of a batch lie in the history in the
\* order of the calls in the response
C20_SequentialInScannerOrder ==
    /\ \A m, n \in 1..Len(tool_log) :
           (m < n /\ tool_log[m].turn = tool_log[n].turn)
               => /\ tool_log[m].idx < tool_log[n].idx
                  /\ tool_log[m].at < tool_log[n].at
    /\ pc \in {"tools", "followup"}
           => /\ \A j \in 1..(idx - 1) :
                     is_dispatched(json_objects[j])
                         => \E n \in 1..Len(tool_log) :
                                /\ tool_log[n].turn = turn
                                /\ tool_log[n].idx = j
                                /\ tool_log[n].at <= Len(conversation_history)
                                /\ conversation_history[tool_log[n].at] =
                                       Turn("tool_output",
                                            dispatch(GetKey(json_objects[j], "tool"),
                                                     GetKey(json_objects[j], "parameters")).tool_result)
              /\ \A n \in 1..Len(tool_log) :
                     tool_log[n].turn = turn => tool_log[n].idx < idx

\* two calls of one batch have been dispatched and a later object of the batch
\* is still to come or the loop is through
C20_Witness ==
    /\ pc \in {"tools", "followup"}
    /\ \E i, j \in 1..(idx - 1) :
           /\ i < j
           /\ is_dispatched(json_objects[i])
           /\ is_dispatched(json_objects[j])
    /\ Len(tool_log) >= 2
    /\ tool_log[Len(tool_log)].turn = turn
    /\ tool_log[Len(tool_log) - 1].turn = turn

\* C21: when the for loop is through a batch, every object of the batch (each
\* has a "tool" key) was dispatched and gave a tool-result turn, the ones
\* without a "parameters" key too
C21_BareCallIsDispatched ==
    pc = "followup"
        => \A j \in 1..Len(json_objects) :
               \E n \in 1..Len(tool_log) :
                   /\ tool_log[n].turn = turn
                   /\ tool_log[n].idx = j
                   /\ tool_log[n].at <= Len(conversation_history)
                   /\ conversation_history[tool_log[n].at].role = "tool_output"

\* C22: no call whose "parameters" value is not an object is dispatched: the
\* calls that gave a tool-result turn all have an object for their parameters
C22_NonObjectIsDiscarded ==
    \A n \in 1..Len(tool_log) :
        tool_log[n].turn = turn
            => GetKey(json_objects[tool_log[n].idx], "parameters").kind = "obj"

\* C23: when the brace scan of a response finds no call and the parse of the
\* whole text finds some, the loop works on the calls the whole-text parse
\* found and does not return the response as a plain answer
C23_FallbackCallsAreExecuted ==
    (/\ turn >= 1
     /\ extract_json_objects(raw_response) = <<>>
     /\ fallback_parse(raw_response) # <<>>)
        => /\ json_objects = fallback_parse(raw_response)
           /\ returned_at = 0
           /\ pc \in {"tools", "followup"}

\* C24: a closing brace that matches no opening brace, standing at the head of
\* the text or behind prose, does not keep the scanner from extracting the
\* well-formed tool call that follows it
C24_UnmatchedCloseThenCall ==
    pc = "scanned"
    => \A p \in ProseTexts \cup {<<>>}, c \in PlainCalls :
           raw_response = p \o <<"}">> \o c
           => json_objects = <<json_loads(c).val>>

\* C25: a send_message call that is under way returns, whatever the model
\* answers, and it never starts or runs a round of tools beyond max_turns
C25_SendMessageTerminates ==
    /\ [](/\ turn <= max_turns
          /\ requests <= max_turns + 1
          /\ \A n \in 1..Len(tool_log) : tool_log[n].turn <= max_turns)
    /\ (pc # "idle") ~> (pc = "idle" /\ returned_at \in {763, 844, 846})

\* the longest call: ten rounds of tools, then the return at the cap
C25_Witness ==
    /\ pc = "idle"
    /\ returned_at = 846
    /\ turn = max_turns
    /\ requests = max_turns + 1
    /\ Len(tool_log) >= max_turns

\* C26: a send_message call whose initial request fails returns at once and
\* leaves the history and the current model as it found them; the history it
\* leaves is the one it was called with
C26_FailedStartLeavesNoTurn ==
    /\ []((pc = "idle" /\ returned_at = 849)
             => (conversation_history = called_with /\ turn = 0 /\ tool_log = <<>>))
    /\ [][(pc = "idle" /\ last_op' = "send_message" /\ raised' # "none")
             => /\ conversation_history' = conversation_history
                /\ current_model' = current_model
                /\ pc' = "idle"
                /\ requests' = 1
                /\ returned_at' = 849]_vars

\* a first request failed on an agent that has a history and a model of the
\* user's choice, and both are still there
C26_Witness ==
    /\ pc = "idle"
    /\ returned_at = 849
    /\ raised # "none"
    /\ conversation_history # <<>>
    /\ current_model # default_model

\* the rounds of the call in which a tool ran
Batches_run == {tool_log[n].turn : n \in 1..Len(tool_log)}

\* C27: every batch of tools is followed by a model request of the same call,
\* so no tool runs after the call's final request; at most max_turns batches
\* run; and the calls in the response that is at hand when the cap is hit are
\* not run: nothing was added to the history after the request that brought it
C27_LastResponseIsNotRun ==
    /\ Cardinality(Batches_run) <= max_turns
    /\ \A n \in 1..Len(tool_log) : tool_log[n].turn \in 1..max_turns
    /\ Returned
       => /\ \A n \in 1..Len(tool_log) : tool_log[n].turn < requests
          /\ returned_at = 846
             => /\ requests = max_turns + 1
                /\ sent = <<system_message>> \o conversation_history
                /\ result = raw_response

\* the cap was hit with ten batches run and a response full of calls at hand
C27_Witness ==
    /\ Returned
    /\ returned_at = 846
    /\ Cardinality(Batches_run) = max_turns
    /\ Len(extract_json_objects(raw_response)) >= 2

Written(v) ==
    LET objs == json_loads(v).val
    IN  IF objs.kind = "arr" THEN objs.sub ELSE <<objs>>

\* C29: every call that was dispatched is one of the objects written in the
\* response, with the parameter values as they were written: taking the fences
\* around the JSON away leaves the strings inside it as they are
C29_ParametersAsWritten ==
    \A v \in JsonValues :
        raw_response \in {v, <<FENCE, "json", NL>> \o v \o <<NL, FENCE>>}
            => \A n \in 1..Len(tool_log) :
                   \E k \in 1..Len(Written(v)) :
                       /\ json_objects[tool_log[n].idx] = Written(v)[k]
                       /\ GetKey(json_objects[tool_log[n].idx], "parameters")
                              = GetKey(Written(v)[k], "parameters")

\* the return value is one of the error strings
is_error(returned) == returned # <<>> /\ returned[1] = "Error: "

====
